---- MODULE Spec2Model ----
(***************************************************************************)
(* ViewSignature (ninja/signature/details.py): the one-time construction   *)
(* that classifies every parameter of a view function by request source,   *)
(* groups the parameters by source, synthesizes one params model per group *)
(* and cross-checks the path template against the path model.              *)
(*                                                                         *)
(* Python values are encoded as follows.                                   *)
(*   - a name or alias is a string; a missing alias (None) is "";          *)
(*   - a type (annotation) is a string tag: "empty" (signature.empty),     *)
(*     "str", "int", "NoneType", "ellipsis", "Any", "HttpRequest",         *)
(*     "UploadedFile", "List[int]", "List[UploadedFile]", "List[Item]" and *)
(*     the pydantic models of ModelNames;                                  *)
(*   - a plain value is the tag "Ellipsis", "None", "int" (an int such as  *)
(*     5) or "request" (an HttpRequest instance);                          *)
(*   - a dict is the sequence of its <<key, value>> items in insertion     *)
(*     order;                                                              *)
(*   - a flatten path "a\x1eb\x1ec" is kept as the tuple <<a, b, c>> that  *)
(*     path.split(FLATTEN_PATH_SEP) yields (no name of the model holds the *)
(*     separator).                                                         *)
(***************************************************************************)
EXTENDS Integers, Sequences, FiniteSets, TLC

VARIABLES
    signature,          \* self.signature.parameters: the reflected parameters
    path_params_names,  \* self.path_params_names
    contribute_args,    \* view_func._ninja_contribute_args (<<>> when absent)
    pc,                 \* the position of __init__
    pos,                \* the number of reflected parameters consumed so far
    params,             \* self.params
    has_kwargs,         \* self.has_kwargs
    models,             \* self.models, once assigned
    models_set,         \* whether self.models has been assigned
    warnings,           \* the warnings emitted, each the set of names it lists
    raised              \* the exception that ended __init__, if any

vars == <<signature, path_params_names, contribute_args, pc, pos, params,
          has_kwargs, models, models_set, warnings, raised>>

\* The longest reflected signature and the longest contributed list explored.
MaxParams == 2
MaxContrib == 1

-----------------------------------------------------------------------------
\* Sequence helpers.

Range(s) == {s[i] : i \in 1..Len(s)}

RECURSIVE Concat(_)
Concat(ss) == IF ss = <<>> THEN <<>> ELSE Head(ss) \o Concat(Tail(ss))

Map1(s) == [i \in 1..Len(s) |-> s[i][1]]

Keys(d) == {d[i][1] : i \in 1..Len(d)}

\* d[k] for a key the dict holds.
Get(d, k) == d[CHOOSE i \in 1..Len(d) : d[i][1] = k][2]

\* d[k] = v: a new key goes last, a held key keeps its place.
Put(d, k, v) ==
    IF k \in Keys(d)
    THEN [i \in 1..Len(d) |-> IF d[i][1] = k THEN <<k, v>> ELSE d[i]]
    ELSE Append(d, <<k, v>>)

\* {key: value for ...}: the dict built from items, in order.
RECURSIVE DictOf(_)
DictOf(items) ==
    IF items = <<>> THEN <<>>
    ELSE LET n == Len(items)
         IN  Put(DictOf(SubSeq(items, 1, n - 1)), items[n][1], items[n][2])

\* Python's str and tuple as dict keys and values: "a" and ("a",) differ.
PyStr(s) == <<"str", s>>
PyTuple(t) == <<"tuple">> \o t

-----------------------------------------------------------------------------
\* The pydantic models of the handlers explored: each field's name, alias,
\* type_ (the inner type) and outer_type_ (the declared type).

Field(n, a, t, o) == [name |-> n, alias |-> a, type_ |-> t, outer_type_ |-> o]

ModelNames == {"Item", "Filter", "Label", "Pair", "Basket"}

Fields(model) ==
    CASE model = "Item" ->
           << Field("ident", "id", "int", "int"),
              Field("tags", "tags", "int", "List[int]") >>
      [] model = "Filter" ->
           << Field("q", "q", "str", "str"),
              Field("item", "item", "Item", "Item") >>
      [] model = "Label" ->
           << Field("label", "label", "str", "str") >>
      [] model = "Pair" ->
           << Field("left", "left", "Item", "Item"),
              Field("right", "right", "Item", "Item") >>
      [] model = "Basket" ->
           << Field("items", "items", "Item", "List[Item]") >>

is_pydantic_model(cls) == cls \in ModelNames

is_collection_type(annotation) ==
    annotation \in {"List[int]", "List[UploadedFile]", "List[Item]"}

\* annotation.__args__[0] of a collection annotation.
Args0(annotation) ==
    CASE annotation = "List[int]" -> "int"
      [] annotation = "List[UploadedFile]" -> "UploadedFile"
      [] annotation = "List[Item]" -> "Item"
      [] OTHER -> "none"

\* type(value) of a plain value.
TypeOf(value) ==
    CASE value = "None" -> "NoneType"
      [] value = "Ellipsis" -> "ellipsis"
      [] value = "int" -> "int"
      [] value = "request" -> "HttpRequest"

-----------------------------------------------------------------------------
\* inspect.Parameter and the params.Param markers.

\* A default: signature.empty, a plain value, or a params.Param instance of
\* class cls with its alias and its own (inner) default.
NoDefault == [tag |-> "empty", cls |-> "", alias |-> "", default |-> ""]
Plain(v) == [tag |-> v, cls |-> "", alias |-> "", default |-> ""]
Marker(c, a, d) == [tag |-> "Param", cls |-> c, alias |-> a, default |-> d]

IsParam(default) == default.tag = "Param"

\* A params.Param instance as a FuncParam's source.
Source(c, a, d) == [cls |-> c, alias |-> a, default |-> d]

Arg(n, k, t, d) == [name |-> n, kind |-> k, annotation |-> t, default |-> d]

FuncParam(n, a, s, t, c) ==
    [name |-> n, alias |-> a, source |-> s, annotation |-> t, is_collection |-> c]

NoParam == FuncParam("", "", Source("", "", ""), "", FALSE)

\* cls._param_source() of each marker class.
ParamSource(cls) ==
    CASE cls = "Path" -> "path"
      [] cls = "Query" -> "query"
      [] cls = "Header" -> "header"
      [] cls = "Cookie" -> "cookie"
      [] cls = "Form" -> "form"
      [] cls = "File" -> "file"
      [] cls = "Body" -> "body"
      [] cls = "_MultiPartBody" -> "body"
      [] cls = "_Request" -> "_request"

-----------------------------------------------------------------------------
\* ViewSignature._is_http_request_arg

IsHttpRequestArg(p, name, arg) ==
    \/ arg.annotation = "HttpRequest"
    \/ /\ arg.annotation = "empty"
       /\ name = "request"
       /\ p = 0
       /\ arg.default.tag = "empty"

\* The annotation of _get_param_type after lines 187-203.
ResolvedAnnotation(p, name, arg) ==
    LET a1 == IF IsHttpRequestArg(p, name, arg) THEN "HttpRequest"
              ELSE arg.annotation
        a2 == IF a1 = "empty"
              THEN IF arg.default.tag = "empty" THEN "str"
                   ELSE IF IsParam(arg.default)
                        THEN TypeOf(arg.default.default)
                        ELSE TypeOf(arg.default.tag)
              ELSE a1
    IN  IF a2 = "NoneType" \/ a2 = "ellipsis" THEN "str" ELSE a2

\* The params.Param instance an explicit marker default is.
AsSource(default) == Source(default.cls, default.alias, default.default)

\* _get_param_type with the path-template rule tried before the explicit
\* marker rule.
GetParamTypePathFirst(p, name, arg) ==
    LET annotation == ResolvedAnnotation(p, name, arg)
        is_collection == is_collection_type(annotation)
        made(src, ann) ==
            [error |-> "",
             param |-> FuncParam(name, IF src.alias # "" THEN src.alias ELSE name,
                                 src, ann, is_collection)]
    IN  IF /\ \/ annotation = "UploadedFile"
              \/ is_collection /\ Args0(annotation) = "UploadedFile"
           /\ arg.default.tag \in {"empty", "None"}
        THEN [error |-> "",
              param |-> FuncParam(name, name,
                            Source("File", "",
                                   IF arg.default.tag = "empty" THEN "Ellipsis"
                                   ELSE arg.default.tag),
                            annotation, is_collection)]
        ELSE IF annotation = "HttpRequest"
        THEN made(Source("_Request", "", "Ellipsis"), "Any")
        ELSE IF name \in path_params_names
        THEN made(Source("Path", "", "Ellipsis"), annotation)
        ELSE IF IsParam(arg.default)
        THEN made(AsSource(arg.default), annotation)
        ELSE IF is_collection \/ is_pydantic_model(annotation)
        THEN made(Source("Body", "",
                         IF arg.default.tag = "empty" THEN "Ellipsis"
                         ELSE arg.default.tag), annotation)
        ELSE made(Source("Query", "",
                         IF arg.default.tag = "empty" THEN "Ellipsis"
                         ELSE arg.default.tag), annotation)

\* _get_param_type with the collection/model rule tried before the
\* path-template rule.
GetParamTypeBodyFirst(p, name, arg) ==
    LET annotation == ResolvedAnnotation(p, name, arg)
        is_collection == is_collection_type(annotation)
        made(src, ann) ==
            [error |-> "",
             param |-> FuncParam(name, IF src.alias # "" THEN src.alias ELSE name,
                                 src, ann, is_collection)]
    IN  IF /\ \/ annotation = "UploadedFile"
              \/ is_collection /\ Args0(annotation) = "UploadedFile"
           /\ arg.default.tag \in {"empty", "None"}
        THEN [error |-> "",
              param |-> FuncParam(name, name,
                            Source("File", "",
                                   IF arg.default.tag = "empty" THEN "Ellipsis"
                                   ELSE arg.default.tag),
                            annotation, is_collection)]
        ELSE IF annotation = "HttpRequest"
        THEN made(Source("_Request", "", "Ellipsis"), "Any")
        ELSE IF IsParam(arg.default)
        THEN made(AsSource(arg.default), annotation)
        ELSE IF is_collection \/ is_pydantic_model(annotation)
        THEN made(Source("Body", "",
                         IF arg.default.tag = "empty" THEN "Ellipsis"
                         ELSE arg.default.tag), annotation)
        ELSE IF name \in path_params_names
        THEN IF arg.default.tag = "empty"
             THEN made(Source("Path", "", "Ellipsis"), annotation)
             ELSE [error |-> "AssertionError", param |-> NoParam]
        ELSE made(Source("Query", "",
                         IF arg.default.tag = "empty" THEN "Ellipsis"
                         ELSE arg.default.tag), annotation)

\* _get_param_type with the assertion of the path-template rule compiled
\* away.
GetParamTypeNoAssert(p, name, arg) ==
    LET annotation == ResolvedAnnotation(p, name, arg)
        is_collection == is_collection_type(annotation)
        made(src, ann) ==
            [error |-> "",
             param |-> FuncParam(name, IF src.alias # "" THEN src.alias ELSE name,
                                 src, ann, is_collection)]
    IN  IF /\ \/ annotation = "UploadedFile"
              \/ is_collection /\ Args0(annotation) = "UploadedFile"
           /\ arg.default.tag \in {"empty", "None"}
        THEN [error |-> "",
              param |-> FuncParam(name, name,
                            Source("File", "",
                                   IF arg.default.tag = "empty" THEN "Ellipsis"
                                   ELSE arg.default.tag),
                            annotation, is_collection)]
        ELSE IF annotation = "HttpRequest"
        THEN made(Source("_Request", "", "Ellipsis"), "Any")
        ELSE IF IsParam(arg.default)
        THEN made(AsSource(arg.default), annotation)
        ELSE IF name \in path_params_names
        THEN made(Source("Path", "", "Ellipsis"), annotation)
        ELSE IF is_collection \/ is_pydantic_model(annotation)
        THEN made(Source("Body", "",
                         IF arg.default.tag = "empty" THEN "Ellipsis"
                         ELSE arg.default.tag), annotation)
        ELSE made(Source("Query", "",
                         IF arg.default.tag = "empty" THEN "Ellipsis"
                         ELSE arg.default.tag), annotation)

\* ViewSignature._get_param_type: the FuncParam, or the exception raised.
GetParamType(p, name, arg) ==
    LET annotation == ResolvedAnnotation(p, name, arg)
        is_collection == is_collection_type(annotation)
        made(src, ann) ==
            [error |-> "",
             param |-> FuncParam(name, IF src.alias # "" THEN src.alias ELSE name,
                                 src, ann, is_collection)]
    IN  IF /\ \/ annotation = "UploadedFile"
              \/ is_collection /\ Args0(annotation) = "UploadedFile"
           /\ arg.default.tag \in {"empty", "None"}
        THEN [error |-> "",
              param |-> FuncParam(name, name,
                            Source("File", "",
                                   IF arg.default.tag = "empty" THEN "Ellipsis"
                                   ELSE arg.default.tag),
                            annotation, is_collection)]
        ELSE IF annotation = "HttpRequest"
        THEN made(Source("_Request", "", "Ellipsis"), "Any")
        ELSE IF IsParam(arg.default)
        THEN made(AsSource(arg.default), annotation)
        ELSE IF name \in path_params_names
        THEN IF arg.default.tag = "empty"
             THEN made(Source("Path", "", "Ellipsis"), annotation)
             ELSE [error |-> "AssertionError", param |-> NoParam]
        ELSE IF is_collection \/ is_pydantic_model(annotation)
        THEN made(Source("Body", "",
                         IF arg.default.tag = "empty" THEN "Ellipsis"
                         ELSE arg.default.tag), annotation)
        ELSE made(Source("Query", "",
                         IF arg.default.tag = "empty" THEN "Ellipsis"
                         ELSE arg.default.tag), annotation)

-----------------------------------------------------------------------------
\* ViewSignature._model_flatten_map: the (field alias, path) pairs it yields,
\* in order; prefix is the path so far.

RECURSIVE ModelFlattenMap(_, _)
ModelFlattenMap(model, prefix) ==
    LET fs == Fields(model)
        one(field) ==
            LET name == Append(prefix, field.alias)
            IN  IF is_pydantic_model(field.type_)
                THEN ModelFlattenMap(field.type_, name)
                ELSE << <<field.alias, name>> >>
    IN  Concat([i \in 1..Len(fs) |-> one(fs[i])])

\* The steps of _args_flatten_map's loops, in order: the flat name, its path,
\* the arg producing it and the value recorded in arg_names for it.
FlattenSteps(args) ==
    LET of(arg) ==
            IF is_pydantic_model(arg.annotation)
            THEN LET ys == ModelFlattenMap(arg.annotation, <<arg.alias>>)
                 IN  [i \in 1..Len(ys) |->
                        [name |-> ys[i][1], path |-> ys[i][2], arg |-> arg,
                         is_model |-> TRUE, record |-> arg.name]]
            ELSE << [name |-> arg.alias, path |-> <<arg.alias>>, arg |-> arg,
                     is_model |-> FALSE, record |-> arg.alias] >>
    IN  Concat([i \in 1..Len(args) |-> of(args[i])])

NoRaise == [type |-> "", quoted |-> <<>>, name |-> "", arg |-> NoParam, args |-> <<>>]

Raise(t) == [NoRaise EXCEPT !.type = t]

\* The ConfigError of _args_flatten_map: the names its message quotes, and
\* the locals name, arg and args it was raised with.
Duplicated(step, arg_names, args) ==
    [type |-> "ConfigError",
     quoted |-> IF step.is_model
                THEN <<step.name, Get(arg_names, step.name), step.arg.name>>
                ELSE <<step.name, Get(arg_names, step.name)>>,
     name |-> step.name, arg |-> step.arg, args |-> args]

RECURSIVE FlattenFrom(_, _, _, _, _)
FlattenFrom(steps, i, flatten_map, arg_names, args) ==
    IF i > Len(steps) THEN [raised |-> NoRaise, flatten_map |-> flatten_map]
    ELSE IF steps[i].name \in Keys(flatten_map)
    THEN [raised |-> Duplicated(steps[i], arg_names, args), flatten_map |-> <<>>]
    ELSE FlattenFrom(steps, i + 1,
                     Put(flatten_map, steps[i].name, steps[i].path),
                     Put(arg_names, steps[i].name, steps[i].record), args)

\* _args_flatten_map without its duplicate checks: a later name overwrites.
ArgsFlattenMapUnchecked(args) ==
    [raised |-> NoRaise,
     flatten_map |->
        DictOf([i \in 1..Len(FlattenSteps(args)) |->
                  <<FlattenSteps(args)[i].name, FlattenSteps(args)[i].path>>])]

\* ViewSignature._args_flatten_map: the flatten map, or the ConfigError.
ArgsFlattenMap(args) == FlattenFrom(FlattenSteps(args), 1, <<>>, <<>>, args)

-----------------------------------------------------------------------------
\* detect_collection_fields

\* next((a for a in fields if a.alias == attr), fields.get(attr)), then its
\* outer_type_; "None" when no field answers.
FieldOuterType(model, attr) ==
    LET fs == Fields(model)
        by_alias == {i \in 1..Len(fs) : fs[i].alias = attr}
        by_name == {i \in 1..Len(fs) : fs[i].name = attr}
        first(S) == CHOOSE i \in S : \A j \in S : i <= j
    IN  IF by_alias # {} THEN fs[first(by_alias)].outer_type_
        ELSE IF by_name # {} THEN fs[first(by_name)].outer_type_
        ELSE "None"

\* The walk of lines 296-308 from step k of path: the type reached, or
\* "AttributeError" where the value at hand has no __fields__.
RECURSIVE Walk(_, _, _)
Walk(annotation_or_field, path, k) ==
    IF k > Len(path) THEN annotation_or_field
    ELSE IF ~is_pydantic_model(annotation_or_field) THEN "AttributeError"
    ELSE Walk(FieldOuterType(annotation_or_field, path[k]), path, k + 1)

\* The leaf of one nested path: is_collection_type(None) raises TypeError.
Leaf(args_d, path) ==
    LET t == Walk(Get(args_d, path[1]).annotation, path, 2)
    IN  IF t = "AttributeError" THEN [error |-> "AttributeError", hit |-> FALSE]
        ELSE IF t = "None" THEN [error |-> "TypeError", hit |-> FALSE]
        ELSE [error |-> "", hit |-> is_collection_type(t)]

\* The fields lines 294-311 append: the last step of every nested path whose
\* leaf is a collection, or the first exception of the walk.
NestedFields(nested, leaves) ==
    LET bad == {i \in 1..Len(nested) : leaves[i].error # ""}
        hits == SelectSeq([i \in 1..Len(nested) |->
                             [name |-> nested[i][Len(nested[i])],
                              hit |-> leaves[i].hit]],
                          LAMBDA h : h.hit)
    IN  IF bad # {}
        THEN [error |-> leaves[CHOOSE i \in bad : \A j \in bad : i <= j].error,
              result |-> <<>>]
        ELSE [error |-> "", result |-> [i \in 1..Len(hits) |-> hits[i].name]]

\* The paths of flatten_map.values() longer than one step, in order.
NestedPaths(flatten_map) ==
    LET nested == SelectSeq(flatten_map, LAMBDA e : Len(e[2]) > 1)
    IN  [i \in 1..Len(nested) |-> nested[i][2]]

LeavesOf(args_d, nested) == [i \in 1..Len(nested) |-> Leaf(args_d, nested[i])]

WalkNested(args_d, nested) == NestedFields(nested, LeavesOf(args_d, nested))

\* Line 290: the names of the collection parameters.
CollectionArgNames(args) ==
    LET coll == SelectSeq(args, LAMBDA i : i.is_collection)
    IN  [i \in 1..Len(coll) |-> coll[i].name]

PrependNames(names, found) ==
    [error |-> found.error,
     result |-> IF found.error = "" THEN names \o found.result ELSE <<>>]

DetectCollectionFields(args, flatten_map) ==
    PrependNames(CollectionArgNames(args),
                 WalkNested(DictOf([i \in 1..Len(args) |-> <<args[i].alias, args[i]>>]),
                            NestedPaths(flatten_map)))

-----------------------------------------------------------------------------
\* ViewSignature._create_models

FlatSources == {"form", "query", "header", "cookie", "path"}

\* params_by_source_cls: the groups by type(param.source), in the order of
\* each class's first parameter.
RECURSIVE GroupBySourceCls(_)
GroupBySourceCls(ps) ==
    IF ps = <<>> THEN <<>>
    ELSE LET n == Len(ps)
             d == GroupBySourceCls(SubSeq(ps, 1, n - 1))
             c == ps[n].source.cls
         IN  Put(d, c, IF c \in Keys(d) THEN Append(Get(d, c), ps[n]) ELSE <<ps[n]>>)

\* The multipart test without the Form case.
IsMultipartWithBodyFileOnly(by_cls) ==
    "Body" \in Keys(by_cls) /\ "File" \in Keys(by_cls)

IsMultipartWithBody(by_cls) ==
    "Body" \in Keys(by_cls) /\ ("File" \in Keys(by_cls) \/ "Form" \in Keys(by_cls))

\* Lines 99-103: the Body group popped and put back under _MultiPartBody.
Retagged(by_cls) ==
    IF IsMultipartWithBody(by_cls)
    THEN Append(SelectSeq(by_cls, LAMBDA g : g[1] # "Body"),
                <<"_MultiPartBody", Get(by_cls, "Body")>>)
    ELSE by_cls

\* The reverse map keyed by wire name, holding the root of each path.
FlattenMapReverseByName(flatten_map) ==
    DictOf([i \in 1..Len(flatten_map) |->
              <<PyStr(flatten_map[i][1]), PyTuple(<<flatten_map[i][2][1]>>)>>])

\* _flatten_map_reverse of a flatten map.
FlattenMapReverse(flatten_map) ==
    DictOf([i \in 1..Len(flatten_map) |->
              <<PyTuple(flatten_map[i][2]), PyTuple(<<flatten_map[i][1]>>)>>])

\* The attrs of lines 109-146 for one group, given its flatten map and its
\* collection fields, or the exception either raised.
ModelAttrs(param_cls, args, is_multipart, source, flat, detected) ==
    IF flat.raised.type # "" THEN [raised |-> flat.raised, model |-> <<>>]
    ELSE IF detected.error # ""
    THEN [raised |-> Raise(detected.error), model |-> <<>>]
    ELSE [raised |-> NoRaise,
          model |->
            [cls_name |-> param_cls,
             fields |-> DictOf([i \in 1..Len(args) |-> <<args[i].name, args[i].source>>]),
             param_source |-> source,
             has_flatten_map |-> source \in FlatSources,
             flatten_map |-> flat.flatten_map,
             flatten_map_reverse |->
                 IF source \in FlatSources THEN FlattenMapReverse(flat.flatten_map)
                 ELSE <<>>,
             has_single_attr |->
                 source = "_request" \/ (source = "body" /\ ~is_multipart),
             single_attr |->
                 IF source = "_request" THEN args[1].name
                 ELSE IF source = "body" /\ ~is_multipart /\ Len(args) = 1
                      THEN args[1].name
                      ELSE "None",
             has_body_params |-> source = "body" /\ is_multipart,
             body_params |->
                 IF source = "body" /\ is_multipart
                 THEN DictOf([i \in 1..Len(args) |-> <<args[i].alias, args[i].annotation>>])
                 ELSE <<>>,
             annotations |->
                 DictOf([i \in 1..Len(args) |-> <<args[i].name, args[i].annotation>>]),
             collection_fields |-> detected.result]]

\* Lines 113-138: only the flat sources get a flatten map.
FlattenMapOf(source, args) ==
    IF source \in FlatSources THEN ArgsFlattenMap(args)
    ELSE [raised |-> NoRaise, flatten_map |-> <<>>]

WithFlattenMap(param_cls, args, is_multipart, source, flat) ==
    ModelAttrs(param_cls, args, is_multipart, source, flat,
               IF flat.raised.type # "" THEN [error |-> "", result |-> <<>>]
               ELSE DetectCollectionFields(args, flat.flatten_map))

\* The body of the loop of lines 106-150 for one group: the model class (its
\* attrs), or the exception raised while building it.
BuildModel(param_cls, args, is_multipart) ==
    WithFlattenMap(param_cls, args, is_multipart, ParamSource(param_cls),
                   FlattenMapOf(ParamSource(param_cls), args))

\* The models of the groups in order, or the first exception.
FirstRaised(built) ==
    LET bad == {i \in 1..Len(built) : built[i].raised.type # ""}
    IN  IF bad # {}
        THEN [raised |-> built[CHOOSE i \in bad : \A j \in bad : i <= j].raised,
              result |-> <<>>]
        ELSE [raised |-> NoRaise,
              result |-> [i \in 1..Len(built) |-> built[i].model]]

BuildModels(groups, is_multipart) ==
    FirstRaised([i \in 1..Len(groups) |->
                   BuildModel(groups[i][1], groups[i][2], is_multipart)])

RetagAndBuild(by_cls) == BuildModels(Retagged(by_cls), IsMultipartWithBody(by_cls))

\* _create_models: the list of model classes, or the first exception.
CreateModelsResult(ps) == RetagAndBuild(GroupBySourceCls(ps))

-----------------------------------------------------------------------------
\* ViewSignature.__init__, step by step.

\* One turn of the loop of lines 42-54 over the reflected parameters.
ReflectParam ==
    /\ pc = "reflect"
    /\ pos < Len(signature)
    /\ LET arg == signature[pos + 1]
           got == GetParamType(pos, arg.name, arg)
       IN  IF arg.kind = "VAR_KEYWORD"
           THEN /\ has_kwargs' = TRUE
                /\ pos' = pos + 1
                /\ UNCHANGED <<pc, params, raised>>
           ELSE IF arg.kind = "VAR_POSITIONAL"
           THEN /\ pos' = pos + 1
                /\ UNCHANGED <<pc, params, has_kwargs, raised>>
           ELSE IF got.error # ""
           THEN /\ pc' = "raised"
                /\ raised' = Raise(got.error)
                /\ UNCHANGED <<pos, params, has_kwargs>>
           ELSE /\ params' = Append(params, got.param)
                /\ pos' = pos + 1
                /\ UNCHANGED <<pc, has_kwargs, raised>>
    /\ UNCHANGED <<signature, path_params_names, contribute_args, models,
                   models_set, warnings>>

\* Lines 56-63: the contributed parameters, appended as already classified.
MergeContributed ==
    /\ pc = "reflect"
    /\ pos = Len(signature)
    /\ params' = params \o
           [i \in 1..Len(contribute_args) |->
              LET c == contribute_args[i]
              IN  FuncParam(c[1], IF c[3].alias # "" THEN c[3].alias ELSE c[1],
                            c[3], c[2], FALSE)]
    /\ pc' = "create_models"
    /\ UNCHANGED <<signature, path_params_names, contribute_args, pos,
                   has_kwargs, models, models_set, warnings, raised>>

\* Line 65 with the models stored before the exception leaves __init__.
CreateModelsKeepingPartial ==
    /\ pc = "create_models"
    /\ LET r == CreateModelsResult(params)
       IN  IF r.raised.type # ""
           THEN /\ pc' = "raised"
                /\ raised' = r.raised
                /\ models' = r.result
                /\ models_set' = TRUE
           ELSE /\ pc' = "validate"
                /\ models' = r.result
                /\ models_set' = TRUE
                /\ UNCHANGED raised
    /\ UNCHANGED <<signature, path_params_names, contribute_args, pos, params,
                   has_kwargs, warnings>>

\* Line 65: self.models = self._create_models()
CreateModels ==
    /\ pc = "create_models"
    /\ LET r == CreateModelsResult(params)
       IN  IF r.raised.type # ""
           THEN /\ pc' = "raised"
                /\ raised' = r.raised
                /\ UNCHANGED <<models, models_set>>
           ELSE /\ pc' = "validate"
                /\ models' = r.result
                /\ models_set' = TRUE
                /\ UNCHANGED raised
    /\ UNCHANGED <<signature, path_params_names, contribute_args, pos, params,
                   has_kwargs, warnings>>

\* The missing names with the template held satisfied by any path model.
MissingUnlessPathModel(ms, names) ==
    IF \E i \in 1..Len(ms) : ms[i].param_source = "path" THEN {} ELSE names

\* The names _validate_view_path_params finds missing from the path model.
Missing(ms, names) ==
    LET paths == {i \in 1..Len(ms) : ms[i].param_source = "path"}
        path_model == ms[CHOOSE i \in paths : \A j \in paths : i <= j]
    IN  {name \in names : ~(paths # {} /\ name \in Keys(path_model.flatten_map))}

\* Line 67: self._validate_view_path_params()
ValidateViewPathParams ==
    /\ pc = "validate"
    /\ warnings' = IF path_params_names # {} /\ Missing(models, path_params_names) # {}
                   THEN Append(warnings, Missing(models, path_params_names))
                   ELSE warnings
    /\ pc' = "done"
    /\ UNCHANGED <<signature, path_params_names, contribute_args, pos, params,
                   has_kwargs, models, models_set, raised>>

Next == ReflectParam \/ MergeContributed \/ CreateModels \/ ValidateViewPathParams

-----------------------------------------------------------------------------
\* The handlers explored.  NAMED stands for the three kinds of named
\* parameter, which __init__ treats alike; a bare * in a def makes every
\* order of defaults a legal signature.

NAMED == "POSITIONAL_OR_KEYWORD"

\* What Python's grammar grants of a signature: distinct names, at most one
\* *args, at most one **kwargs and nothing after it.
WellFormed(sig) ==
    /\ \A i, j \in 1..Len(sig) : sig[i].name = sig[j].name => i = j
    /\ \A i, j \in 1..Len(sig) : sig[i].kind = sig[j].kind /\ sig[i].kind # NAMED => i = j
    /\ \A i \in 1..Len(sig) : sig[i].kind = "VAR_KEYWORD" => i = Len(sig)

SeqsUpTo(S, n) == UNION {[1..k -> S] : k \in 0..n}

Signatures(menu) == {sig \in SeqsUpTo(menu, MaxParams) : WellFormed(sig)}

PathTemplates == {{}, {"id"}, {"id", "q"}}

VarArgs ==
    { Arg("args", "VAR_POSITIONAL", "empty", NoDefault),
      Arg("kwargs", "VAR_KEYWORD", "empty", NoDefault) }

\* Handlers of every source, with and without a path template.
GeneralMenu ==
    { Arg("id", NAMED, "empty", NoDefault),
      Arg("id", NAMED, "int", Plain("int")),
      Arg("id", NAMED, "Label", NoDefault),
      Arg("id", NAMED, "List[int]", NoDefault),
      Arg("id", NAMED, "HttpRequest", NoDefault),
      Arg("id", NAMED, "UploadedFile", NoDefault),
      Arg("id", NAMED, "List[UploadedFile]", NoDefault),
      Arg("id", NAMED, "UploadedFile", Plain("None")),
      Arg("id", NAMED, "UploadedFile", Plain("int")),
      Arg("id", NAMED, "Item", NoDefault),
      Arg("id", NAMED, "int", Marker("Path", "", "int")),
      Arg("q", NAMED, "int", Marker("Path", "id", "Ellipsis")),
      Arg("q", NAMED, "Item", NoDefault),
      Arg("q", NAMED, "Item", Marker("Body", "", "Ellipsis")),
      Arg("q", NAMED, "empty", Plain("int")),
      Arg("request", NAMED, "empty", NoDefault),
      Arg("request", NAMED, "int", Marker("Form", "", "Ellipsis")),
      Arg("request", NAMED, "UploadedFile", Plain("None")) } \cup VarArgs

GeneralContributed ==
    { <<"q", "int", Source("Form", "", "Ellipsis")>>,
      <<"id", "int", Source("Path", "", "Ellipsis")>> }

\* Handlers whose parameters share flat sources, models and aliases.
FlatMenu ==
    { Arg("id", NAMED, "int", NoDefault),
      Arg("id", NAMED, "Item", NoDefault),
      Arg("id", NAMED, "Pair", Marker("Query", "", "Ellipsis")),
      Arg("id", NAMED, "Item", Marker("Form", "", "Ellipsis")),
      Arg("q", NAMED, "Item", Marker("Query", "", "Ellipsis")),
      Arg("q", NAMED, "int", Marker("Query", "id", "Ellipsis")),
      Arg("q", NAMED, "Filter", Marker("Query", "", "Ellipsis")),
      Arg("q", NAMED, "List[int]", Marker("Query", "id", "Ellipsis")),
      Arg("q", NAMED, "Basket", Marker("Query", "", "Ellipsis")),
      Arg("q", NAMED, "Item", Marker("Body", "id", "Ellipsis")),
      Arg("request", NAMED, "Item", Marker("Query", "", "Ellipsis")),
      Arg("request", NAMED, "int", Marker("Query", "id", "int")),
      Arg("request", NAMED, "List[int]", Marker("Query", "", "Ellipsis")),
      Arg("request", NAMED, "Label", Marker("Query", "q", "Ellipsis")),
      Arg("request", NAMED, "Label", Marker("Query", "", "Ellipsis")),
      Arg("request", NAMED, "int", Marker("Body", "id", "Ellipsis")),
      Arg("q", NAMED, "int", Marker("Header", "id", "Ellipsis")),
      Arg("request", NAMED, "Item", Marker("Header", "", "Ellipsis")),
      Arg("q", NAMED, "Filter", Marker("Cookie", "", "Ellipsis")) }

FlatContributed ==
    { <<"id", "int", Source("Query", "", "Ellipsis")>>,
      <<"tags", "List[int]", Source("Form", "id", "Ellipsis")>> }

\* One parameter with an explicit marker, first or after another parameter.
MarkerClasses == {"Path", "Query", "Header", "Cookie", "Form", "File", "Body"}

MarkerMenu ==
    { Arg(n, NAMED, t, Marker(c, a, d)) :
        n \in {"id", "request"},
        t \in {"empty", "int", "List[int]", "Item", "HttpRequest", "UploadedFile",
               "List[UploadedFile]"},
        c \in MarkerClasses,
        a \in {"", "id"},
        d \in {"Ellipsis", "None", "int", "request"} }

MarkerSignatures ==
    { <<m>> : m \in MarkerMenu } \cup
    { <<Arg("q", NAMED, "empty", NoDefault), m>> : m \in MarkerMenu }

InitWith(sigs, templates, contributed) ==
    /\ signature \in sigs
    /\ path_params_names \in templates
    /\ contribute_args \in SeqsUpTo(contributed, MaxContrib)
    /\ pc = "reflect"
    /\ pos = 0
    /\ params = <<>>
    /\ has_kwargs = FALSE
    /\ models = <<>>
    /\ models_set = FALSE
    /\ warnings = <<>>
    /\ raised = NoRaise

Init == InitWith(Signatures(GeneralMenu), PathTemplates, GeneralContributed)

InitFlat == InitWith(Signatures(FlatMenu), {{}, {"id"}}, FlatContributed)

InitMarker == InitWith(MarkerSignatures, {{}, {"id"}}, {})

Spec == Init /\ [][Next]_vars

SpecFlat == InitFlat /\ [][Next]_vars

SpecMarker == InitMarker /\ [][Next]_vars

-----------------------------------------------------------------------------
\* What the properties below speak of.

\* The reflected parameters classified so far, and the FuncParam of each.
Classified == {i \in 1..pos : signature[i].kind = NAMED}

ParamAt(i) == params[Cardinality({j \in 1..i : signature[j].kind = NAMED})]

IsUploadType(t) == t \in {"UploadedFile", "List[UploadedFile]"}

\* The parameters of a synthesized model's group.
GroupOf(model) ==
    SelectSeq(params,
              LAMBDA p : p.source.cls =
                  IF model.cls_name = "_MultiPartBody" THEN "Body" ELSE model.cls_name)

Synthesized == IF models_set THEN Range(models) ELSE {}

\* The flat wire names one parameter produces, in order.
WireNames(arg) ==
    IF is_pydantic_model(arg.annotation)
    THEN Map1(ModelFlattenMap(arg.annotation, <<arg.alias>>))
    ELSE <<arg.alias>>

Distinct(s) == \A i, j \in 1..Len(s) : s[i] = s[j] => i = j

-----------------------------------------------------------------------------
-----------------------------------------------------------------------------
\* The Body parameters of the handler and their multipart siblings.
BodyParams == SelectSeq(params, LAMBDA p : p.source.cls = "Body")

HasFormOrFile == \E p \in Range(params) : p.source.cls \in {"Form", "File"}

LoneModelBody ==
    /\ Len(BodyParams) = 1
    /\ is_pydantic_model(BodyParams[1].annotation)
    /\ BodyParams[1].source.default = "Ellipsis"

ModelsOfClass(c) == {m \in Synthesized : m.cls_name = c}

\* C2: a lone required structured-model Body parameter without Form or File
\* siblings yields a Body model whose single attribute is that parameter;
\* with a Form or File sibling the group is synthesized as _MultiPartBody
\* instead, with no single attribute and with the alias -> type map of its
\* parameters.
C2_SingleAttrOrMultipart ==
    (models_set /\ LoneModelBody) =>
        IF HasFormOrFile
        THEN /\ ModelsOfClass("Body") = {}
             /\ Cardinality(ModelsOfClass("_MultiPartBody")) = 1
             /\ \A m \in ModelsOfClass("_MultiPartBody") :
                   /\ ~m.has_single_attr
                   /\ m.has_body_params
                   /\ m.body_params =
                        << <<BodyParams[1].alias, BodyParams[1].annotation>> >>
        ELSE /\ ModelsOfClass("_MultiPartBody") = {}
             /\ Cardinality(ModelsOfClass("Body")) = 1
             /\ \A m \in ModelsOfClass("Body") :
                   /\ m.has_single_attr
                   /\ m.single_attr = BodyParams[1].name
                   /\ ~m.has_body_params

\* A lone model body beside a reflected Form parameter, synthesized as
\* _MultiPartBody.
C2_Witness ==
    /\ pc = "done"
    /\ LoneModelBody
    /\ \E i \in Classified : ParamAt(i).source.cls = "Form"
    /\ \E m \in Synthesized : m.cls_name = "_MultiPartBody" /\ m.has_body_params

-----------------------------------------------------------------------------
\* The reflected parameters named "id" that declare no default.
IdParams ==
    {i \in Classified : signature[i].name = "id" /\ signature[i].default.tag = "empty"}

WarnedNames == UNION {warnings[k] : k \in 1..Len(warnings)}

-----------------------------------------------------------------------------
\* The wire names of the synthesized path model, if there is one.
PathWireNames ==
    UNION {Keys(m.flatten_map) : m \in {x \in Synthesized : x.param_source = "path"}}

\* The wire names the handler's parameters map to, whatever their source.
AllWireNames == UNION {Range(WireNames(params[k])) : k \in 1..Len(params)}

\* C4: at most one warning per construction, and none before path
\* validation; once validation is done there is exactly one iff some template
\* name is no wire name of the path model (or there is no path model), it
\* lists exactly those names, and the models stay available.  So a template
\* with "id" and no parameter of wire name "id" gives one warning naming "id".
C4_OneWarningNamingMissing ==
    /\ Len(warnings) <= 1
    /\ pc # "done" => warnings = <<>>
    /\ pc = "done" =>
          /\ models_set
          /\ Len(warnings) = 1 <=> path_params_names \ PathWireNames # {}
          /\ Len(warnings) = 1 => warnings[1] = path_params_names \ PathWireNames
          /\ ("id" \in path_params_names /\ "id" \notin AllWireNames) =>
                Len(warnings) = 1 /\ "id" \in warnings[1]

\* A two-name template of which the path model holds one: the warning lists
\* the other alone.
C4_Witness ==
    /\ pc = "done"
    /\ path_params_names = {"id", "q"}
    /\ PathWireNames # {}
    /\ Len(warnings) = 1
    /\ Cardinality(warnings[1]) = 1

-----------------------------------------------------------------------------
\* C7 as stated: every parameter bound to the Path source is required, by a
\* path-template match or by an explicit Path marker alike: one with a
\* default makes construction fail.
C7_EveryPathParamRequired ==
    \A k \in 1..Len(params) :
        params[k].source.cls = "Path" => params[k].source.default = "Ellipsis"

\* The reflected parameters that reach the path-template rule of
\* _get_param_type: named in the template, no marker as default, not the
\* request object and not promoted to File.
ReachesPathRule(i) ==
    LET arg == signature[i]
    IN  /\ arg.kind = NAMED
        /\ arg.name \in path_params_names
        /\ ~IsParam(arg.default)
        /\ arg.annotation # "HttpRequest"
        /\ ~(arg.annotation = "empty" /\ arg.default.tag = "request")
        /\ ~(IsUploadType(arg.annotation) /\ arg.default.tag \in {"empty", "None"})

\* C7, amended: a parameter that becomes Path by matching a path-template
\* name and declares a default makes construction fail (an AssertionError,
\* before any model is synthesized), so every field a synthesized Path model
\* got from a template match is required; an explicit Path marker, or a
\* contributed one, keeps the default it carries.
C7_PathMatchRequired ==
    /\ \A i \in 1..Len(signature) :
          ReachesPathRule(i) =>
             IF signature[i].default.tag = "empty"
             THEN i \in Classified => ParamAt(i).source = Source("Path", "", "Ellipsis")
             ELSE /\ pos < i
                  /\ ~models_set
                  /\ (pos = i - 1 /\ pc # "reflect") =>
                        (pc = "raised" /\ raised.type = "AssertionError")
    /\ raised.type = "AssertionError" =>
          /\ pc = "raised"
          /\ ReachesPathRule(pos + 1)
          /\ signature[pos + 1].default.tag # "empty"
    /\ \A i \in Classified :
          (IsParam(signature[i].default) /\ signature[i].annotation \notin {"HttpRequest"}
             /\ ~(signature[i].annotation = "empty" /\ signature[i].default.default = "request"))
             => ParamAt(i).source.default = signature[i].default.default

\* Construction ended by the assertion on a template-matched "id" that
\* declares a default.
C7_Witness ==
    /\ pc = "raised"
    /\ raised.type = "AssertionError"
    /\ signature[pos + 1].name = "id"
    /\ signature[pos + 1].default = Plain("int")

-----------------------------------------------------------------------------
\* The phases of a construction.
Phase ==
    CASE pc = "reflect" -> 0          \* Unbuilt
      [] pc = "create_models" -> 1    \* ParametersClassified
      [] pc = "validate" -> 2         \* ModelsSynthesized
      [] pc = "done" -> 3             \* PathValidated
      [] pc = "raised" -> 4           \* ended by an exception

NamedCount == Cardinality({i \in 1..Len(signature) : signature[i].kind = NAMED})

PhaseInvariant ==
    /\ Phase \in 1..3 =>
          /\ pos = Len(signature)
          /\ Len(params) = NamedCount + Len(contribute_args)
          /\ \A k \in 1..Len(contribute_args) :
                /\ params[NamedCount + k].name = contribute_args[k][1]
                /\ params[NamedCount + k].source = contribute_args[k][3]
    /\ \A i \in Classified : ParamAt(i).name = signature[i].name
    /\ Phase = 0 => Len(params) = Cardinality(Classified)
    /\ models_set <=> Phase \in 2..3
    /\ warnings # <<>> => Phase = 3
    /\ Phase = 4 <=> raised.type # ""
    /\ Phase = 4 => ~models_set /\ warnings = <<>>

PhaseStep ==
    /\ Phase \in 3..4 => UNCHANGED vars
    /\ Phase' # Phase => Phase' = Phase + 1 \/ (Phase' = 4 /\ Phase \in 0..1)
    /\ params' # params => Phase = 0
    /\ models' # models => Phase = 1 /\ Phase' = 2
    /\ warnings' # warnings => Phase = 2 /\ Phase' = 3

\* C9: a construction goes Unbuilt, ParametersClassified, ModelsSynthesized,
\* PathValidated in that order and never back; every parameter, reflected
\* then contributed, is classified before a model is synthesized; a warning
\* comes only with path validation, after the models; and a construction that
\* raises ends with no model list and no warning.
C9_PhasesInOrder == []PhaseInvariant /\ [][PhaseStep]_vars

\* A duplicate wire name found after every parameter was classified:
\* construction ended, nothing exposed.
C9_Witness ==
    /\ pc = "raised"
    /\ raised.type = "ConfigError"
    /\ pos = Len(signature)
    /\ Len(params) >= 2
    /\ ~models_set

-----------------------------------------------------------------------------
\* The wire names of a group of parameters, parameter after parameter.
GroupWireNames(args) == Concat([k \in 1..Len(args) |-> WireNames(args[k])])

\* The parameters of one source class, in order, and the classes in use.
ParamsOfClass(c) == SelectSeq(params, LAMBDA p : p.source.cls = c)

ClassesInUse == {params[k].source.cls : k \in 1..Len(params)}

IsFlatClass(c) == c \in {"Path", "Query", "Header", "Cookie", "Form"}

\* The first parameter of args that produces the wire name w.
FirstProducer(args, w) ==
    args[CHOOSE k \in 1..Len(args) :
            /\ w \in Range(WireNames(args[k]))
            /\ \A j \in 1..(k - 1) : w \notin Range(WireNames(args[j]))]

\* C5: a flat wire name produced a second time within a flat-source group
\* makes construction fail with a ConfigError whose message names both
\* handler parameters: the one that first produced the name and the one that
\* produced it again.
C5_DuplicateNamesBothParams ==
    /\ models_set =>
          \A c \in ClassesInUse :
              IsFlatClass(c) => Distinct(GroupWireNames(ParamsOfClass(c)))
    /\ raised.type = "ConfigError" =>
          /\ FirstProducer(raised.args, raised.name).name \in Range(raised.quoted)
          /\ raised.arg.name \in Range(raised.quoted)

\* C6 as stated: in every group of every source, flat or not, the wire names
\* are pairwise distinct whenever the models are synthesized.
C6_EveryGroupDistinct ==
    models_set =>
        \A c \in ClassesInUse :
            IF IsFlatClass(c)
            THEN Distinct(GroupWireNames(ParamsOfClass(c)))
            ELSE Distinct([k \in 1..Len(ParamsOfClass(c)) |-> ParamsOfClass(c)[k].alias])

\* C6, amended: in every group of a flat source (path, query, header, cookie,
\* form) the wire names after flattening are pairwise distinct or
\* construction fails, so no model at all is synthesized when a flat group
\* shares a wire name, and a ConfigError is raised only for such a group; the
\* File, Body and multipart-body groups are not checked, and two of their
\* parameters may share an alias.
C6_FlatGroupsDistinct ==
    /\ models_set =>
          \A c \in ClassesInUse :
              IsFlatClass(c) =>
                 /\ Distinct(GroupWireNames(ParamsOfClass(c)))
                 /\ \E m \in Synthesized :
                       /\ m.cls_name = c
                       /\ Map1(m.flatten_map) = GroupWireNames(ParamsOfClass(c))
    /\ (pc = "raised" /\ pos = Len(signature) /\ raised.type = "ConfigError") =>
          \E c \in ClassesInUse :
              IsFlatClass(c) /\ ~Distinct(GroupWireNames(ParamsOfClass(c)))
    /\ (pc \in {"validate", "done", "raised"} /\ pos = Len(signature)
          /\ \E c \in ClassesInUse :
                IsFlatClass(c) /\ ~Distinct(GroupWireNames(ParamsOfClass(c)))) =>
          (pc = "raised" /\ ~models_set)

\* Two structured parameters flattened into one query model of distinct
\* names.
C6_Witness ==
    /\ pc = "done"
    /\ \E m \in Synthesized :
          /\ m.param_source = "query"
          /\ Len(GroupOf(m)) = 2
          /\ Len(m.flatten_map) = 3
          /\ \A k \in 1..2 : is_pydantic_model(GroupOf(m)[k].annotation)

-----------------------------------------------------------------------------
\* The nested leaves of a group that are collections: each flat wire name
\* with a path of more than one step whose leaf field, found from the
\* parameter that produced it, has a collection outer type.
NestedCollectionLeaves(args) ==
    UNION { { ModelFlattenMap(args[k].annotation, <<args[k].alias>>)[n][1] :
                n \in { x \in 1..Len(ModelFlattenMap(args[k].annotation, <<args[k].alias>>)) :
                          is_collection_type(
                              Walk(args[k].annotation,
                                   ModelFlattenMap(args[k].annotation, <<args[k].alias>>)[x][2],
                                   2)) } } :
            k \in { x \in 1..Len(args) : is_pydantic_model(args[x].annotation) } }

\* C8: the collection fields of a model are exactly the wire aliases of the
\* group's collection parameters together with the nested collection leaves
\* of its flatten map.
C8_CollectionFieldsByAlias ==
    \A m \in Synthesized :
        Range(m.collection_fields) =
            { a.alias : a \in { x \in Range(GroupOf(m)) : x.is_collection } }
              \cup (IF m.has_flatten_map THEN NestedCollectionLeaves(GroupOf(m)) ELSE {})

\* What the code computes instead: the declared names of the collection
\* parameters, with the nested collection leaves.
C8_CollectionFieldsByName ==
    \A m \in Synthesized :
        Range(m.collection_fields) =
            { a.name : a \in { x \in Range(GroupOf(m)) : x.is_collection } }
              \cup (IF m.has_flatten_map THEN NestedCollectionLeaves(GroupOf(m)) ELSE {})

-----------------------------------------------------------------------------
FlatModels == {m \in Synthesized : m.param_source \in FlatSources}

\* C10 as stated: the reverse map's keys are the flat wire names, each mapped
\* to the one-element tuple of the handler parameter it came from.
C10_ReverseByWireName ==
    \A m \in FlatModels :
        /\ Keys(m.flatten_map_reverse) = {PyStr(w) : w \in Keys(m.flatten_map)}
        /\ \A w \in Keys(m.flatten_map) :
              Get(m.flatten_map_reverse, PyStr(w)) =
                  PyTuple(<<FirstProducer(GroupOf(m), w).name>>)

\* C10, amended: the reverse map is the flatten map inverted: its keys are
\* the path tuples of the flatten map, one per flat wire name, and each path
\* maps to the one-element tuple holding its flat wire name.
C10_ReverseByPath ==
    \A m \in FlatModels :
        /\ Len(m.flatten_map_reverse) = Len(m.flatten_map)
        /\ Keys(m.flatten_map_reverse) =
              {PyTuple(Get(m.flatten_map, w)) : w \in Keys(m.flatten_map)}
        /\ \A w \in Keys(m.flatten_map) :
              Get(m.flatten_map_reverse, PyTuple(Get(m.flatten_map, w))) = PyTuple(<<w>>)

\* A nested model flattened: a three-step path is a key of the reverse map.
C10_Witness ==
    /\ pc = "done"
    /\ \E m \in FlatModels :
          \E k \in 1..Len(m.flatten_map_reverse) :
              /\ Len(m.flatten_map_reverse[k][1]) = 4
              /\ m.flatten_map_reverse[k][2] = PyTuple(<<"tags">>)

====
